---- MODULE Spec2Model ----
(***************************************************************************)
(* Model of the asteroid discussion subsystem: the socket.io service       *)
(* (backend/services/socketService.js), the REST chat routes               *)
(* (backend/routes/chat.js) and the ChatMessage model.                     *)
(*                                                                         *)
(* One action is one run of handler code between two suspension points     *)
(* (await), or one operation of the database on the message collection.    *)
(***************************************************************************)
EXTENDS Integers, Sequences, FiniteSets, TLC

\* ------------------------------------------------------------------ bounds
NumConns == 2
MaxTasks == 2
MaxMsgs == 2
MaxClock == 3
MaxStored == 52
MaxHistory == 3

Conns == 1..NumConns
Rooms == {"A", "B"}
NoRoom == "none"
Users == {"u1", "u2"}
GoneUser == "u0"
NoUser == "null"
Emojis == {"e1", "e2"}
NoEmoji == "undefined"
\* Documents of the Asteroid collection; "X" is an id with no document.
Asteroids == Rooms
MsgIds == 1..MaxMsgs

\* Handshake credentials: no token, a token jwt.verify rejects, a verified
\* token naming a user id (of an existing user or of a deleted one).
Credentials ==
    {[kind |-> "none", uid |-> NoUser],
     [kind |-> "malformed", uid |-> NoUser],
     [kind |-> "expired", uid |-> "u1"]}
    \cup {[kind |-> "valid", uid |-> u] : u \in Users \cup {GoneUser}}

VARIABLES
    server,       \* "running" | "closing" | "exited"   (http server / process)
    status,       \* status[c]: "new" | "connected" | "disconnected" | "rejected"
    userId,       \* socket.userId (NoUser for a guest)
    rooms,        \* socket.rooms restricted to the asteroid:* rooms
    currentRoom,  \* socket.currentRoom (NoRoom for null)
    tasks,        \* async handlers suspended on an await
    msgs,         \* the ChatMessage collection, in insertion order
    clock,        \* the value the next new Date() returns
    typingUsers,  \* typingUsers[c]: the users shown as typing by c's client
    out,          \* events emitted by the step just taken
    last          \* the step just taken

vars == <<server, status, userId, rooms, currentRoom, typingUsers, tasks, msgs, clock,
          out, last>>

storeVars == <<msgs, clock>>

connVars == <<status, userId, rooms, currentRoom, typingUsers>>

\* ------------------------------------------------------------ socket.io
\* io.sockets.adapter.rooms.get(`asteroid:${r}`): the sockets in the room.
Members(r) == {c \in Conns : r \in rooms[c]}

\* io.sockets.adapter.rooms.get(roomName)?.size || 0
RoomSize(r) == Cardinality(Members(r))

\* An outbound event: name, receivers, originating socket, room, and the
\* payload (a number or message id, and a list).
Ev(name, to, from, room, n, list) ==
    [ev |-> name, to |-> to, from |-> from, room |-> room, n |-> n, list |-> list,
     kind |-> ""]

\* socket.emit('chatError', ...) and the REST error responses, by the class
\* of the error they report.
ErrorEv(name, to, from, kind) ==
    [ev |-> name, to |-> to, from |-> from, room |-> NoRoom, n |-> 0, list |-> <<>>,
     kind |-> kind]

\* socket.emit: to the socket itself; a closed socket receives nothing.
ToSelf(c) == IF status[c] = "connected" THEN {c} ELSE {}

Step(op, c, arg) == [op |-> op, conn |-> c, arg |-> arg]

NoSnap == <<>>
NoBody == [lead |-> 0, core |-> 0, trail |-> 0]

\* A suspended handler: the socket (0 for a REST request), the identity it
\* acts for, where it is suspended, and its local variables.
Task(kind, c, u, pc) ==
    [kind |-> kind, conn |-> c, user |-> u, pc |-> pc, room |-> NoRoom,
     msg |-> 0, emoji |-> NoEmoji, body |-> NoBody, at |-> 0, snap |-> NoSnap,
     reacts |-> <<>>, ok |-> TRUE]

\* ----------------------------------------------------------- middleware
\* What the middleware decides: next() or next(err), and socket.userId.
Guest == [accept |-> TRUE, uid |-> NoUser]

\* Faulty variant: a middleware that refuses what it cannot verify.
AuthenticateOrReject(cred, lookupOk) ==
    IF cred.kind = "none" THEN Guest
    ELSE IF cred.kind # "valid" \/ ~lookupOk THEN [accept |-> FALSE, uid |-> NoUser]
    ELSE IF cred.uid \in Users THEN [accept |-> TRUE, uid |-> cred.uid]
    ELSE Guest

\* io.use(...): lookupOk is FALSE when User.findById rejects.
Authenticate(cred, lookupOk) ==
    IF cred.kind = "none" THEN Guest
    ELSE IF cred.kind # "valid" THEN Guest
    ELSE IF ~lookupOk THEN Guest
    ELSE IF cred.uid \in Users THEN [accept |-> TRUE, uid |-> cred.uid]
    ELSE Guest

\* A transport handshake: the middleware, then io.on('connection').
\* Sockets are numbered in the order of their handshakes.
Connect(c, cred, lookupOk) ==
    /\ server = "running"
    /\ status[c] = "new"
    /\ \A d \in Conns : d < c => status[d] # "new"
    /\ status' = [status EXCEPT ![c] =
                     IF Authenticate(cred, lookupOk).accept THEN "connected" ELSE "rejected"]
    /\ userId' = [userId EXCEPT ![c] = Authenticate(cred, lookupOk).uid]
    /\ out' = {}
    /\ last' = Step("connect", c, [cred |-> cred, lookupOk |-> lookupOk])
    /\ UNCHANGED <<server, rooms, currentRoom, typingUsers, tasks, storeVars>>

\* ------------------------------------------------------------ ChatMessage
NoDate == 0

Min(a, b) == IF a < b THEN a ELSE b

RECURSIVE Reverse(_)
\* Array.prototype.reverse
Reverse(s) == IF s = <<>> THEN <<>> ELSE Append(Reverse(Tail(s)), Head(s))

\* Faulty variant: a history query that forgets deleted: false.
HistoryFilterWithDeleted(r, before) ==
    {i \in DOMAIN msgs :
        /\ msgs[i].asteroidId = r
        /\ msgs[i].type # "system"
        /\ (before # NoDate => msgs[i].createdAt < before)}

\* The documents a history query matches: { asteroidId, deleted: false,
\* messageType: { $ne: 'system' } [, createdAt: { $lt: before }] }.
HistoryFilter(r, before) ==
    {i \in DOMAIN msgs :
        /\ msgs[i].asteroidId = r
        /\ msgs[i].deleted = FALSE
        /\ msgs[i].type # "system"
        /\ (before # NoDate => msgs[i].createdAt < before)}

RECURSIVE SortNewestFirst(_)
\* .sort({ createdAt: -1 })
SortNewestFirst(S) ==
    IF S = {} THEN <<>>
    ELSE LET m == CHOOSE i \in S : \A j \in S :
                     \/ msgs[j].createdAt < msgs[i].createdAt
                     \/ (msgs[j].createdAt = msgs[i].createdAt /\ j <= i)
         IN <<m>> \o SortNewestFirst(S \ {m})

\* .limit(n): the first n documents; MongoDB treats limit 0 as no limit and a
\* negative limit as its absolute value.
Limit(s, n) ==
    LET k == IF n < 0 THEN 0 - n ELSE n
    IN IF k = 0 THEN s ELSE SubSeq(s, 1, Min(k, Len(s)))

\* ChatMessage.getChatHistory(asteroidId, limit, beforeDate)
getChatHistory(r, limit, before) ==
    Limit(SortNewestFirst(HistoryFilter(r, before)), limit)

\* ChatMessage.getMessageCount(asteroidId)
getMessageCount(r) ==
    Cardinality({i \in DOMAIN msgs :
        msgs[i].asteroidId = r /\ msgs[i].deleted = FALSE /\ msgs[i].type # "system"})

HistoryLimit == 50

\* ------------------------------------------------------- process / server
\* An exception that escapes an async handler is an unhandled rejection:
\* process.on('unhandledRejection') calls server.close(() => process.exit(1)).
unhandledRejection(c, op) ==
    /\ server' = IF server = "running" THEN "closing" ELSE server
    /\ out' = {}
    /\ last' = Step("unhandledRejection", c, op)
    /\ UNCHANGED <<connVars, tasks, storeVars>>

\* server.close's callback: the process exits once every connection has ended.
ProcessExit ==
    /\ server = "closing"
    /\ \A c \in Conns : status[c] # "connected"
    /\ server' = "exited"
    /\ tasks' = {}
    /\ out' = {}
    /\ last' = Step("exit", 0, 0)
    /\ UNCHANGED <<connVars, storeVars>>

Alive(c) == server # "exited" /\ status[c] = "connected"

CanSpawn(t) == Cardinality(tasks) < MaxTasks /\ t \notin tasks

\* ---------------------------------------------------------- joinAsteroid
\* Faulty variant: joinAsteroid that does not leave the previous rooms.
joinAsteroidKeepingRooms(c, r) ==
    LET t == [Task("join", c, NoUser, "fetch") EXCEPT !.room = r]
    IN /\ Alive(c)
       /\ CanSpawn(t)
       /\ rooms' = [rooms EXCEPT ![c] = rooms[c] \cup {r}]
       /\ currentRoom' = [currentRoom EXCEPT ![c] = r]
       /\ tasks' = tasks \cup {t}
       /\ out' = {}
       /\ last' = Step("joinAsteroid", c, [room |-> r, prev |-> rooms[c]])
       /\ UNCHANGED <<server, status, userId, typingUsers, storeVars>>

\* Faulty variant: joinAsteroid that does not record the room on the socket.
joinAsteroidNotRecorded(c, r) ==
    LET t == [Task("join", c, NoUser, "fetch") EXCEPT !.room = r]
    IN /\ Alive(c)
       /\ CanSpawn(t)
       /\ rooms' = [rooms EXCEPT ![c] = {x \in rooms[c] : x = r} \cup {r}]
       /\ tasks' = tasks \cup {t}
       /\ out' = {}
       /\ last' = Step("joinAsteroid", c, [room |-> r, prev |-> rooms[c]])
       /\ UNCHANGED <<server, status, userId, currentRoom, typingUsers, storeVars>>

\* socket.on('joinAsteroid') up to the await: leave the other asteroid rooms,
\* join the new one, record it on the socket, request the history.
joinAsteroid(c, r) ==
    LET t == [Task("join", c, NoUser, "fetch") EXCEPT !.room = r]
    IN /\ Alive(c)
       /\ CanSpawn(t)
       /\ rooms' = [rooms EXCEPT ![c] = {x \in rooms[c] : x = r} \cup {r}]
       /\ currentRoom' = [currentRoom EXCEPT ![c] = r]
       /\ tasks' = tasks \cup {t}
       /\ out' = {}
       /\ last' = Step("joinAsteroid", c, [room |-> r, prev |-> rooms[c]])
       /\ UNCHANGED <<server, status, userId, typingUsers, storeVars>>

\* joinAsteroid without a payload: destructuring undefined throws.
joinAsteroidNoPayload(c) ==
    /\ Alive(c)
    /\ unhandledRejection(c, "joinAsteroid")

\* The database answers the history query (or the query fails).
joinFetch(t, ok) ==
    /\ server # "exited"
    /\ t \in tasks /\ t.kind = "join" /\ t.pc = "fetch"
    /\ tasks' = (tasks \ {t}) \cup
          {[t EXCEPT !.pc = "deliver", !.ok = ok,
                     !.snap = IF ok THEN getChatHistory(t.room, HistoryLimit, NoDate)
                              ELSE NoSnap]}
    /\ out' = {}
    /\ last' = Step("joinFetch", t.conn, ok)
    /\ UNCHANGED <<server, connVars, storeVars>>

\* Faulty variant: the history sent to the room instead of the joiner.
joinDeliverToRoom(t) ==
    /\ server # "exited"
    /\ t \in tasks /\ t.kind = "join" /\ t.pc = "deliver"
    /\ tasks' = tasks \ {t}
    /\ out' = {Ev("chatHistory", Members(t.room), t.conn, t.room, 0,
                  IF t.ok THEN Reverse(t.snap) ELSE <<>>),
               Ev("userJoined", Members(t.room) \ {t.conn}, t.conn, t.room, 0, <<>>),
               Ev("activeUsers", Members(t.room), t.conn, t.room, RoomSize(t.room), <<>>)}
    /\ last' = Step("joinDeliver", t.conn, t.room)
    /\ UNCHANGED <<server, connVars, storeVars>>

\* joinAsteroid after the await: history to the joiner, userJoined to the
\* others in the room, activeUsers to the whole room.
joinDeliver(t) ==
    /\ server # "exited"
    /\ t \in tasks /\ t.kind = "join" /\ t.pc = "deliver"
    /\ tasks' = tasks \ {t}
    /\ out' = {Ev("chatHistory", ToSelf(t.conn), t.conn, t.room, 0,
                  IF t.ok THEN Reverse(t.snap) ELSE <<>>),
               Ev("userJoined", Members(t.room) \ {t.conn}, t.conn, t.room, 0, <<>>),
               Ev("activeUsers", Members(t.room), t.conn, t.room, RoomSize(t.room), <<>>)}
    /\ last' = Step("joinDeliver", t.conn, t.room)
    /\ UNCHANGED <<server, connVars, storeVars>>

\* Faulty variant: leaveAsteroid that forgets to clear socket.currentRoom.
leaveAsteroidKeepingField(c) ==
    /\ Alive(c)
    /\ IF currentRoom[c] # NoRoom
       THEN /\ out' = {Ev("userLeft", Members(currentRoom[c]) \ {c}, c, currentRoom[c], 0, <<>>),
                       Ev("activeUsers", Members(currentRoom[c]), c, currentRoom[c],
                          RoomSize(currentRoom[c]), <<>>)}
            /\ rooms' = [rooms EXCEPT ![c] = rooms[c] \ {currentRoom[c]}]
       ELSE /\ out' = {}
            /\ UNCHANGED rooms
    /\ last' = Step("leaveAsteroid", c, currentRoom[c])
    /\ UNCHANGED <<server, status, userId, currentRoom, typingUsers, tasks, storeVars>>

\* Faulty variant: leaveAsteroid without the test of socket.currentRoom.
leaveAsteroidUnguarded(c) ==
    /\ Alive(c)
    /\ out' = {Ev("userLeft", Members(currentRoom[c]) \ {c}, c, currentRoom[c], 0, <<>>),
               Ev("activeUsers", Members(currentRoom[c]), c, currentRoom[c],
                  RoomSize(currentRoom[c]), <<>>)}
    /\ rooms' = [rooms EXCEPT ![c] = rooms[c] \ {currentRoom[c]}]
    /\ currentRoom' = [currentRoom EXCEPT ![c] = NoRoom]
    /\ last' = Step("leaveAsteroid", c, currentRoom[c])
    /\ UNCHANGED <<server, status, userId, typingUsers, tasks, storeVars>>

\* --------------------------------------------------------- leaveAsteroid
leaveAsteroid(c) ==
    /\ Alive(c)
    /\ IF currentRoom[c] # NoRoom
       THEN /\ out' = {Ev("userLeft", Members(currentRoom[c]) \ {c}, c, currentRoom[c], 0, <<>>),
                       Ev("activeUsers", Members(currentRoom[c]), c, currentRoom[c],
                          RoomSize(currentRoom[c]), <<>>)}
            /\ rooms' = [rooms EXCEPT ![c] = rooms[c] \ {currentRoom[c]}]
            /\ currentRoom' = [currentRoom EXCEPT ![c] = NoRoom]
       ELSE /\ out' = {}
            /\ UNCHANGED <<rooms, currentRoom>>
    /\ last' = Step("leaveAsteroid", c, currentRoom[c])
    /\ UNCHANGED <<server, status, userId, typingUsers, tasks, storeVars>>

\* ------------------------------------------------------------ disconnect
\* socket.io removes the socket from all its rooms, then runs the handler.
disconnect(c) ==
    LET left == [rooms EXCEPT ![c] = {}]
        there(r) == {d \in Conns : r \in left[d]}
    IN /\ Alive(c)
       /\ status' = [status EXCEPT ![c] = "disconnected"]
       /\ rooms' = left
       /\ out' = IF currentRoom[c] # NoRoom
                 THEN {Ev("userLeft", there(currentRoom[c]) \ {c}, c, currentRoom[c], 0, <<>>),
                       Ev("activeUsers", there(currentRoom[c]), c, currentRoom[c],
                          Cardinality(there(currentRoom[c])), <<>>)}
                 ELSE {}
       /\ last' = Step("disconnect", c, currentRoom[c])
       /\ UNCHANGED <<server, userId, currentRoom, typingUsers, tasks, storeVars>>

\* ----------------------------------------------------------- sendMessage
MaxBodyLen == 2000

\* A message text: `lead` white-space characters, `core` characters that
\* begin and end with a non-blank one, `trail` white-space characters.
Body(lead, core, trail) == [lead |-> lead, core |-> core, trail |-> trail]

Bodies ==
    {Body(0, c, t) : t \in {0, 2},
                     c \in {0, MaxBodyLen - 1, MaxBodyLen, MaxBodyLen + 1}}
    \cup {Body(1, MaxBodyLen - 1, 0)}

\* String.prototype.length
Length(b) == b.lead + b.core + b.trail

\* String.prototype.trim
Trim(b) == Body(0, b.core, 0)

\* The topic fields of a sendMessage payload; asteroidId or neoReferenceId
\* may be missing.
Topic(r, neo) == [asteroidId |-> r, neo |-> neo]

Topics == {Topic(r, TRUE) : r \in Rooms \cup {NoRoom}} \cup {Topic("A", FALSE)}

\* Faulty variant: the checks without the test of socket.userId.
SendCheckNoAuth(topic, b, u) ==
    IF topic.asteroidId = NoRoom THEN "ValidationError"
    ELSE IF ~topic.neo THEN "ValidationError"
    ELSE IF Length(b) = 0 \/ Length(Trim(b)) = 0 THEN "ValidationError"
    ELSE IF Length(b) > MaxBodyLen THEN "ValidationError"
    ELSE "ok"

\* The checks of the sendMessage handler, in the order the handler makes them.
SendCheck(topic, b, u) ==
    IF topic.asteroidId = NoRoom THEN "ValidationError"
    ELSE IF ~topic.neo THEN "ValidationError"
    ELSE IF Length(b) = 0 \/ Length(Trim(b)) = 0 THEN "ValidationError"
    ELSE IF Length(b) > MaxBodyLen THEN "ValidationError"
    ELSE IF u = NoUser THEN "AuthRequired"
    ELSE "ok"

\* new ChatMessage({...}) as the schema completes it.
NewMessage(r, u, b, at) ==
    [asteroidId |-> r, userId |-> u, body |-> Trim(b), createdAt |-> at,
     type |-> "text", deleted |-> FALSE, deletedAt |-> NoDate, reactions |-> <<>>]

Pending(kinds) == {t \in tasks : t.kind \in kinds /\ t.pc = "save"}

\* Room for one more document within the bound of the model.
CanInsert == Len(msgs) + Cardinality(Pending({"send", "restPost"})) < MaxMsgs

\* socket.on('sendMessage') up to the await of chatMessage.save().
sendMessage(c, topic, b) ==
    LET res == SendCheck(topic, b, userId[c])
        t == [Task("send", c, userId[c], "save") EXCEPT
                 !.room = topic.asteroidId, !.body = Trim(b), !.at = clock]
    IN /\ Alive(c)
       /\ IF res = "ok"
          THEN /\ CanSpawn(t) /\ CanInsert /\ clock <= MaxClock
               /\ tasks' = tasks \cup {t}
               /\ clock' = clock + 1
               /\ out' = {}
          ELSE /\ out' = {ErrorEv("chatError", ToSelf(c), c, res)}
               /\ UNCHANGED <<tasks, clock>>
       /\ last' = Step("sendMessage", c, [res |-> res, topic |-> topic, body |-> b])
       /\ UNCHANGED <<server, connVars, msgs>>

\* sendMessage without a payload: destructuring undefined throws.
sendMessageNoPayload(c) ==
    /\ Alive(c)
    /\ unhandledRejection(c, "sendMessage")

\* The database inserts the document, or the save fails.
sendSave(t, ok) ==
    /\ server # "exited"
    /\ t \in tasks /\ t.kind = "send" /\ t.pc = "save"
    /\ msgs' = IF ok THEN Append(msgs, NewMessage(t.room, t.user, t.body, t.at))
               ELSE msgs
    /\ tasks' = (tasks \ {t}) \cup
                {[t EXCEPT !.pc = "saved", !.ok = ok,
                           !.msg = IF ok THEN Len(msgs) + 1 ELSE 0]}
    /\ out' = {}
    /\ last' = Step("sendSave", t.conn, ok)
    /\ UNCHANGED <<server, connVars, clock>>

\* sendMessage after the await: newMessage to the room named in the payload,
\* or chatError to the sender when the save threw.
sendDone(t) ==
    /\ server # "exited"
    /\ t \in tasks /\ t.kind = "send" /\ t.pc = "saved"
    /\ tasks' = tasks \ {t}
    /\ out' = IF t.ok
              THEN {Ev("newMessage", Members(t.room), t.conn, t.room, t.msg, <<>>)}
              ELSE {ErrorEv("chatError", ToSelf(t.conn), t.conn, "StoreError")}
    /\ last' = Step("sendDone", t.conn, t.ok)
    /\ UNCHANGED <<server, connVars, storeVars>>

\* ------------------------------------------- POST /api/chat/:asteroidId/messages
\* The checks of the route before it looks the asteroid up.
RestPostCheck(b) ==
    IF Length(b) = 0 \/ Length(Trim(b)) = 0 THEN "ValidationError"
    ELSE IF Length(b) > MaxBodyLen THEN "ValidationError"
    ELSE "ok"

\* The route up to the await of Asteroid.findById; u is req.user.id.
restPostMessage(u, r, b) ==
    LET res == RestPostCheck(b)
        t == [Task("restPost", 0, u, "find") EXCEPT !.room = r, !.body = Trim(b)]
    IN /\ server = "running"
       /\ IF res = "ok"
          THEN /\ CanSpawn(t)
               /\ tasks' = tasks \cup {t}
               /\ out' = {}
          ELSE /\ out' = {ErrorEv("response", {}, 0, res)}
               /\ UNCHANGED tasks
       /\ last' = Step("restPostMessage", 0, res)
       /\ UNCHANGED <<server, connVars, storeVars>>

\* Asteroid.findById answers; the route constructs the message and saves it.
restPostFind(t, ok) ==
    /\ server # "exited"
    /\ t \in tasks /\ t.kind = "restPost" /\ t.pc = "find"
    /\ IF ok /\ t.room \in Asteroids
       THEN /\ CanInsert /\ clock <= MaxClock
            /\ tasks' = (tasks \ {t}) \cup {[t EXCEPT !.pc = "save", !.at = clock]}
            /\ clock' = clock + 1
            /\ out' = {}
       ELSE /\ tasks' = tasks \ {t}
            /\ out' = {ErrorEv("response", {}, 0, IF ok THEN "NotFound" ELSE "StoreError")}
            /\ UNCHANGED clock
    /\ last' = Step("restPostFind", 0, ok)
    /\ UNCHANGED <<server, connVars, msgs>>

\* The save completes and the route answers 201, or the save fails (500).
restPostSave(t, ok) ==
    /\ server # "exited"
    /\ t \in tasks /\ t.kind = "restPost" /\ t.pc = "save"
    /\ tasks' = tasks \ {t}
    /\ msgs' = IF ok THEN Append(msgs, NewMessage(t.room, t.user, t.body, t.at))
               ELSE msgs
    /\ out' = IF ok THEN {Ev("response", {}, 0, t.room, Len(msgs) + 1, <<>>)}
              ELSE {ErrorEv("response", {}, 0, "StoreError")}
    /\ last' = Step("restPostSave", 0, ok)
    /\ UNCHANGED <<server, connVars, clock>>

\* ----------------------------------------------------------- addReaction
\* Faulty variant: push without removing the user's earlier reaction.
AddReactionOnly(reactions, u, e) ==
    Append(reactions, [emoji |-> e, userId |-> u])

\* message.reactions.filter(r => r.userId !== u) followed by push({emoji, userId}).
ReplaceReaction(reactions, u, e) ==
    LET Other(x) == x.userId # u
    IN Append(SelectSeq(reactions, Other), [emoji |-> e, userId |-> u])

\* Where a handler's answer goes: the socket, or the HTTP response.
Reply(t, kind) ==
    IF t.conn = 0 THEN ErrorEv("response", {}, 0, kind)
    ELSE ErrorEv("chatError", ToSelf(t.conn), t.conn, kind)

\* socket.on('addReaction') up to the await of ChatMessage.findById.
addReaction(c, m, e) ==
    LET t == [Task("react", c, userId[c], "find") EXCEPT !.msg = m, !.emoji = e]
    IN /\ Alive(c)
       /\ IF userId[c] = NoUser
          THEN /\ out' = {ErrorEv("chatError", ToSelf(c), c, "AuthRequired")}
               /\ UNCHANGED tasks
          ELSE /\ CanSpawn(t)
               /\ tasks' = tasks \cup {t}
               /\ out' = {}
       /\ last' = Step("addReaction", c, m)
       /\ UNCHANGED <<server, connVars, storeVars>>

\* addReaction without a payload: destructuring undefined throws.
addReactionNoPayload(c) ==
    /\ Alive(c)
    /\ unhandledRejection(c, "addReaction")

\* POST /api/chat/messages/:messageId/reactions up to the await of findById.
restAddReaction(u, m, e) ==
    LET t == [Task("restReact", 0, u, "find") EXCEPT !.msg = m, !.emoji = e]
    IN /\ server = "running"
       /\ IF e = NoEmoji
          THEN /\ out' = {ErrorEv("response", {}, 0, "ValidationError")}
               /\ UNCHANGED tasks
          ELSE /\ CanSpawn(t)
               /\ tasks' = tasks \cup {t}
               /\ out' = {}
       /\ last' = Step("restAddReaction", 0, m)
       /\ UNCHANGED <<server, connVars, storeVars>>

\* findById answers: the handler replaces the user's reaction in the loaded
\* document and calls save, or reports that the message is unknown.
reactFind(t, ok) ==
    /\ server # "exited"
    /\ t \in tasks /\ t.kind \in {"react", "restReact"} /\ t.pc = "find"
    /\ IF ok /\ t.msg \in DOMAIN msgs
       THEN /\ tasks' = (tasks \ {t}) \cup
                  {[t EXCEPT !.pc = "save", !.room = msgs[t.msg].asteroidId,
                      !.reacts = ReplaceReaction(msgs[t.msg].reactions, t.user, t.emoji)]}
            /\ out' = {}
       ELSE /\ tasks' = tasks \ {t}
            /\ out' = {Reply(t, IF ok THEN "NotFound" ELSE "StoreError")}
    /\ last' = Step("reactFind", t.conn, ok)
    /\ UNCHANGED <<server, connVars, storeVars>>

\* message.save() writes the modified path, reactions, as a whole; then the
\* handler broadcasts reactionUpdated (socket) or answers (REST).
reactSave(t, ok) ==
    /\ server # "exited"
    /\ t \in tasks /\ t.kind \in {"react", "restReact"} /\ t.pc = "save"
    /\ tasks' = tasks \ {t}
    /\ msgs' = IF ok THEN [msgs EXCEPT ![t.msg].reactions = t.reacts] ELSE msgs
    /\ out' = IF ~ok THEN {Reply(t, "StoreError")}
              ELSE IF t.conn = 0 THEN {Ev("response", {}, 0, t.room, t.msg, t.reacts)}
              ELSE {Ev("reactionUpdated", Members(t.room), t.conn, t.room, t.msg, t.reacts)}
    /\ last' = Step("reactSave", t.conn, ok)
    /\ UNCHANGED <<server, connVars, clock>>

\* --------------------------------------------------------- deleteMessage
\* socket.on('deleteMessage') up to the await of ChatMessage.findById.
deleteMessage(c, m) ==
    LET t == [Task("delete", c, userId[c], "find") EXCEPT !.msg = m]
    IN /\ Alive(c)
       /\ IF userId[c] = NoUser
          THEN /\ out' = {ErrorEv("chatError", ToSelf(c), c, "AuthRequired")}
               /\ UNCHANGED tasks
          ELSE /\ CanSpawn(t)
               /\ tasks' = tasks \cup {t}
               /\ out' = {}
       /\ last' = Step("deleteMessage", c, m)
       /\ UNCHANGED <<server, connVars, storeVars>>

\* deleteMessage without a payload: destructuring undefined throws.
deleteMessageNoPayload(c) ==
    /\ Alive(c)
    /\ unhandledRejection(c, "deleteMessage")

\* DELETE /api/chat/messages/:messageId up to the await of findById.
restDeleteMessage(u, m) ==
    LET t == [Task("restDelete", 0, u, "find") EXCEPT !.msg = m]
    IN /\ server = "running"
       /\ CanSpawn(t)
       /\ tasks' = tasks \cup {t}
       /\ out' = {}
       /\ last' = Step("restDeleteMessage", 0, m)
       /\ UNCHANGED <<server, connVars, storeVars>>

\* Faulty variant: no comparison of the author with the requester.
DeleteCheckAnyone(t, ok) ==
    IF ~ok THEN "StoreError"
    ELSE IF t.msg \notin DOMAIN msgs THEN "NotFound"
    ELSE "ok"

\* The checks made once findById has answered, in the handler's order.
DeleteCheck(t, ok) ==
    IF ~ok THEN "StoreError"
    ELSE IF t.msg \notin DOMAIN msgs THEN "NotFound"
    ELSE IF msgs[t.msg].userId # t.user THEN "PermissionDenied"
    ELSE "ok"

\* findById answers: the handler checks the owner, sets deleted and
\* deletedAt = new Date() on the loaded document and calls save.
deleteFind(t, ok) ==
    /\ server # "exited"
    /\ t \in tasks /\ t.kind \in {"delete", "restDelete"} /\ t.pc = "find"
    /\ IF DeleteCheck(t, ok) = "ok"
       THEN /\ clock <= MaxClock
            /\ tasks' = (tasks \ {t}) \cup
                  {[t EXCEPT !.pc = "save", !.room = msgs[t.msg].asteroidId, !.at = clock]}
            /\ clock' = clock + 1
            /\ out' = {}
       ELSE /\ tasks' = tasks \ {t}
            /\ out' = {Reply(t, DeleteCheck(t, ok))}
            /\ UNCHANGED clock
    /\ last' = Step("deleteFind", t.conn, DeleteCheck(t, ok))
    /\ UNCHANGED <<server, connVars, msgs>>

\* message.save() writes deleted and deletedAt; then the handler broadcasts
\* messageDeleted (socket) or answers (REST).
deleteSave(t, ok) ==
    /\ server # "exited"
    /\ t \in tasks /\ t.kind \in {"delete", "restDelete"} /\ t.pc = "save"
    /\ tasks' = tasks \ {t}
    /\ msgs' = IF ok THEN [msgs EXCEPT ![t.msg].deleted = TRUE, ![t.msg].deletedAt = t.at]
               ELSE msgs
    /\ out' = IF ~ok THEN {Reply(t, "StoreError")}
              ELSE IF t.conn = 0 THEN {Ev("response", {}, 0, t.room, t.msg, <<>>)}
              ELSE {Ev("messageDeleted", Members(t.room), t.conn, t.room, t.msg, <<>>)}
    /\ last' = Step("deleteSave", t.conn, ok)
    /\ UNCHANGED <<server, connVars, clock>>

\* ----------------------------------------------------- typing indicators
\* The client's listeners: on userTyping it adds the user to typingUsers, on
\* userStoppedTyping it removes the user.
Show(to, u) ==
    [d \in Conns |-> IF d \in to THEN typingUsers[d] \cup {u} ELSE typingUsers[d]]

Hide(to, u) ==
    [d \in Conns |-> IF d \in to THEN typingUsers[d] \ {u} ELSE typingUsers[d]]

\* Faulty variant: the indicator sent with io.to, the sender included.
typingToRoom(c) ==
    /\ Alive(c)
    /\ IF currentRoom[c] # NoRoom /\ userId[c] # NoUser
       THEN /\ out' = {Ev("userTyping", Members(currentRoom[c]), c, currentRoom[c], 0, <<>>)}
            /\ typingUsers' = Show(Members(currentRoom[c]), userId[c])
       ELSE /\ out' = {}
            /\ UNCHANGED typingUsers
    /\ last' = Step("typing", c, currentRoom[c])
    /\ UNCHANGED <<server, status, userId, rooms, currentRoom, tasks, storeVars>>

\* socket.on('typing'): relayed to the others in socket.currentRoom when the
\* socket has a room and a user; dropped otherwise.
typing(c) ==
    /\ Alive(c)
    /\ IF currentRoom[c] # NoRoom /\ userId[c] # NoUser
       THEN /\ out' = {Ev("userTyping", Members(currentRoom[c]) \ {c}, c, currentRoom[c],
                          0, <<>>)}
            /\ typingUsers' = Show(Members(currentRoom[c]) \ {c}, userId[c])
       ELSE /\ out' = {}
            /\ UNCHANGED typingUsers
    /\ last' = Step("typing", c, currentRoom[c])
    /\ UNCHANGED <<server, status, userId, rooms, currentRoom, tasks, storeVars>>

\* socket.on('stopTyping')
stopTyping(c) ==
    /\ Alive(c)
    /\ IF currentRoom[c] # NoRoom /\ userId[c] # NoUser
       THEN /\ out' = {Ev("userStoppedTyping", Members(currentRoom[c]) \ {c}, c,
                          currentRoom[c], 0, <<>>)}
            /\ typingUsers' = Hide(Members(currentRoom[c]) \ {c}, userId[c])
       ELSE /\ out' = {}
            /\ UNCHANGED typingUsers
    /\ last' = Step("stopTyping", c, currentRoom[c])
    /\ UNCHANGED <<server, status, userId, rooms, currentRoom, tasks, storeVars>>

\* ------------------------------------------------------ REST read routes
\* GET /api/chat/:asteroidId/messages?limit=&before=
restGetMessages(r, limit, before, ok) ==
    /\ server = "running"
    /\ out' = IF ok THEN {Ev("history", {}, 0, r, 0,
                             Reverse(getChatHistory(r, limit, before)))}
              ELSE {ErrorEv("response", {}, 0, "StoreError")}
    /\ last' = Step("restGetMessages", 0, [ok |-> ok, limit |-> limit, before |-> before])
    /\ UNCHANGED <<server, connVars, tasks, storeVars>>

\* The limit parameter of the query string: missing, or a text that parseInt
\* reads as the integer n, or a text parseInt cannot read.
LimitParam(kind, n) == [kind |-> kind, n |-> n]

LimitParams ==
    {LimitParam("absent", 0), LimitParam("text", 0)}
    \cup {LimitParam("int", n) : n \in {0 - 1, 0, 1, HistoryLimit, HistoryLimit + 1, 1000}}

\* const { limit = 50 } = req.query; parseInt(limit): nan stands for NaN.
QueryLimit(p) ==
    IF p.kind = "absent" THEN [nan |-> FALSE, n |-> HistoryLimit]
    ELSE IF p.kind = "int" THEN [nan |-> FALSE, n |-> p.n]
    ELSE [nan |-> TRUE, n |-> 0]

\* GET /api/chat/:asteroidId/messages with the limit as the client wrote it.
\* What .limit(NaN) does is left to the database driver: the query is
\* rejected, or it runs without a limit.
restGetMessagesQuery(r, p, nanFails, ok) ==
    IF QueryLimit(p).nan
    THEN restGetMessages(r, 0, NoDate, ok /\ ~nanFails)
    ELSE restGetMessages(r, QueryLimit(p).n, NoDate, ok)

\* GET /api/chat/:asteroidId/count
restGetCount(r, ok) ==
    /\ server = "running"
    /\ out' = IF ok THEN {Ev("count", {}, 0, r, getMessageCount(r), <<>>)}
              ELSE {ErrorEv("response", {}, 0, "StoreError")}
    /\ last' = Step("restGetCount", 0, ok)
    /\ UNCHANGED <<server, connVars, tasks, storeVars>>

Init ==
    /\ server = "running"
    /\ status = [c \in Conns |-> "new"]
    /\ userId = [c \in Conns |-> NoUser]
    /\ rooms = [c \in Conns |-> {}]
    /\ currentRoom = [c \in Conns |-> NoRoom]
    /\ typingUsers = [c \in Conns |-> {}]
    /\ tasks = {}
    /\ msgs = <<>>
    /\ clock = 1
    /\ out = {}
    /\ last = Step("init", 0, 0)

Next ==
    \/ \E c \in Conns, cred \in Credentials, ok \in BOOLEAN : Connect(c, cred, ok)
    \/ \E c \in Conns, r \in Rooms : joinAsteroid(c, r)
    \/ \E c \in Conns : joinAsteroidNoPayload(c)
    \/ \E t \in tasks, ok \in BOOLEAN : joinFetch(t, ok)
    \/ \E t \in tasks : joinDeliver(t)
    \/ \E c \in Conns : leaveAsteroid(c)
    \/ \E c \in Conns : disconnect(c)
    \/ ProcessExit

Spec == Init /\ [][Next]_vars

\* ------------------------------------------------------------------------
\* Specifications of the message operations.  They start with the sockets
\* connected and placed in rooms, and with the collection holding `store`.
SeedBody == Body(0, MaxBodyLen - 1, 0)

\* One message sent earlier by u1 to room A.
SeedStore == <<NewMessage("A", "u1", SeedBody, 1)>>

Established(idents, places, store) ==
    /\ server = "running"
    /\ status = [c \in Conns |-> "connected"]
    /\ userId \in idents
    /\ currentRoom \in places
    /\ rooms = [c \in Conns |-> IF currentRoom[c] = NoRoom THEN {} ELSE {currentRoom[c]}]
    /\ typingUsers = [c \in Conns |-> {}]
    /\ tasks = {}
    /\ msgs = store
    /\ clock = Len(store) + 1
    /\ out = {}
    /\ last = Step("init", 0, 0)

\* Socket 1 is u1's; the other sockets are anyone's.
Idents == {f \in [Conns -> Users \cup {NoUser}] : f[1] = "u1"}

\* Socket 1 is in room A; the other sockets are anywhere.
Places == {f \in [Conns -> Rooms \cup {NoRoom}] : f[1] = "A"}

AllInA == {[c \in Conns |-> "A"]}

\* -------- sending
\* Socket 1 is u1's; the other sockets are guests'.
OneUser == {[c \in Conns |-> IF c = 1 THEN "u1" ELSE NoUser]}

\* Every body on a complete topic, and a valid body on each incomplete one.
SendInputs ==
    {[topic |-> Topic("A", TRUE), body |-> b] : b \in Bodies}
    \cup {[topic |-> t, body |-> SeedBody] : t \in Topics}

NextSend ==
    \/ \E c \in Conns, in \in SendInputs : sendMessage(c, in.topic, in.body)
    \/ \E t \in tasks, ok \in BOOLEAN : sendSave(t, ok)
    \/ \E t \in tasks : sendDone(t)
    \/ \E b \in Bodies : restPostMessage("u1", "A", b)
    \/ restPostMessage("u1", "X", SeedBody)
    \/ \E t \in tasks, ok \in BOOLEAN : restPostFind(t, ok)
    \/ \E t \in tasks, ok \in BOOLEAN : restPostSave(t, ok)

SpecSend == Established(OneUser, AllInA, <<>>) /\ [][NextSend]_vars

\* -------- reactions
NextReact ==
    \/ \E c \in Conns, m \in MsgIds, e \in Emojis : addReaction(c, m, e)
    \/ \E u \in Users, m \in MsgIds, e \in Emojis : restAddReaction(u, m, e)
    \/ \E t \in tasks, ok \in BOOLEAN : reactFind(t, ok)
    \/ \E t \in tasks, ok \in BOOLEAN : reactSave(t, ok)

SpecReact == Established(Idents, AllInA, SeedStore) /\ [][NextReact]_vars

\* -------- deletion and history
\* Socket 1 is u1's, the author of the seeded message; the others are u2's.
OwnerAndOther == {[c \in Conns |-> IF c = 1 THEN "u1" ELSE "u2"]}

NextDelete ==
    \/ \E c \in Conns, m \in MsgIds : deleteMessage(c, m)
    \/ \E u \in Users, m \in MsgIds : restDeleteMessage(u, m)
    \/ \E t \in tasks, ok \in BOOLEAN : deleteFind(t, ok)
    \/ \E t \in tasks, ok \in BOOLEAN : deleteSave(t, ok)
    \/ \E c \in Conns, m \in MsgIds : addReaction(c, m, "e1")
    \/ \E t \in tasks, ok \in BOOLEAN : reactFind(t, ok)
    \/ \E t \in tasks, ok \in BOOLEAN : reactSave(t, ok)
    \/ sendMessage(1, Topic("A", TRUE), SeedBody)
    \/ \E t \in tasks, ok \in BOOLEAN : sendSave(t, ok)
    \/ \E t \in tasks : sendDone(t)
    \/ \E c \in Conns : c # 1 /\ joinAsteroid(c, "A")
    \/ \E t \in tasks, ok \in BOOLEAN : joinFetch(t, ok)
    \/ \E t \in tasks : joinDeliver(t)
    \/ \E ok \in BOOLEAN : restGetMessages("A", HistoryLimit, NoDate, ok)
    \/ \E ok \in BOOLEAN : restGetCount("A", ok)

SpecDelete == Established(OwnerAndOther, AllInA, SeedStore) /\ [][NextDelete]_vars

\* -------- events of guests, events without payload
NextGuest ==
    \/ \E c \in Conns, in \in SendInputs : sendMessage(c, in.topic, in.body)
    \/ \E t \in tasks, ok \in BOOLEAN : sendSave(t, ok)
    \/ \E t \in tasks : sendDone(t)
    \/ \E c \in Conns, m \in MsgIds : addReaction(c, m, "e1")
    \/ \E t \in tasks, ok \in BOOLEAN : reactFind(t, ok)
    \/ \E t \in tasks, ok \in BOOLEAN : reactSave(t, ok)
    \/ \E c \in Conns, m \in MsgIds : deleteMessage(c, m)
    \/ \E t \in tasks, ok \in BOOLEAN : deleteFind(t, ok)
    \/ \E t \in tasks, ok \in BOOLEAN : deleteSave(t, ok)
    \/ \E c \in Conns : sendMessageNoPayload(c)
    \/ \E c \in Conns : addReactionNoPayload(c)
    \/ \E c \in Conns : deleteMessageNoPayload(c)
    \/ \E c \in Conns : joinAsteroidNoPayload(c)
    \/ \E c \in Conns : disconnect(c)
    \/ ProcessExit

SpecGuest == Established(OneUser, AllInA, SeedStore) /\ [][NextGuest]_vars

\* -------- typing indicators, sends and room changes together
\* Socket 1 is u1's; the other sockets are u2's or guests'.
UserAndOthers ==
    {f \in [Conns -> Users \cup {NoUser}] : f[1] = "u1" /\ \A c \in Conns \ {1} : f[c] # "u1"}

NextTyping ==
    \/ \E c \in Conns : typing(c)
    \/ \E c \in Conns : stopTyping(c)
    \/ \E c \in Conns : sendMessage(c, Topic("A", TRUE), SeedBody)
    \/ \E t \in tasks, ok \in BOOLEAN : sendSave(t, ok)
    \/ \E t \in tasks : sendDone(t)
    \/ \E c \in Conns, r \in Rooms : joinAsteroid(c, r)
    \/ \E t \in tasks, ok \in BOOLEAN : joinFetch(t, ok)
    \/ \E t \in tasks : joinDeliver(t)

SpecTyping == Established(UserAndOthers, Places, <<>>) /\ [][NextTyping]_vars


\* -------- typing indicators and departures
\* The server finishes the handlers it has suspended, and every client
\* follows the typing contract: its idle timer sends stopTyping.
NextDeparture ==
    \/ \E c \in Conns : typing(c)
    \/ \E c \in Conns : stopTyping(c)
    \/ \E c \in Conns, r \in Rooms : joinAsteroid(c, r)
    \/ \E t \in tasks, ok \in BOOLEAN : joinFetch(t, ok)
    \/ \E t \in tasks : joinDeliver(t)
    \/ \E c \in Conns : leaveAsteroid(c)
    \/ \E c \in Conns : disconnect(c)

SpecDeparture ==
    /\ Established(UserAndOthers, Places, <<>>)
    /\ [][NextDeparture]_vars
    /\ WF_vars(\E t \in tasks, ok \in BOOLEAN : joinFetch(t, ok))
    /\ WF_vars(\E t \in tasks : joinDeliver(t))
    /\ \A c \in Conns : WF_vars(stopTyping(c))

\* -------- reactions with and without an emoji
NextEmoji ==
    \/ \E c \in Conns, e \in {"e1", NoEmoji} : addReaction(c, 1, e)
    \/ \E e \in {"e1", NoEmoji} : restAddReaction("u1", 1, e)
    \/ \E t \in tasks, ok \in BOOLEAN : reactFind(t, ok)
    \/ \E t \in tasks, ok \in BOOLEAN : reactSave(t, ok)

SpecEmoji == Established(OneUser, AllInA, SeedStore) /\ [][NextEmoji]_vars

\* -------- history limits
\* A collection of n messages sent by u1 to room A, one per clock tick.
FilledStore(n) == [i \in 1..n |-> NewMessage("A", "u1", SeedBody, i)]

\* An empty collection, a small one, and the sizes around HistoryLimit.
StoredSizes == {0, 1} \cup ((HistoryLimit - 1)..MaxStored)

NextLimit ==
    \/ \E p \in LimitParams, nanFails \in BOOLEAN, ok \in BOOLEAN :
          restGetMessagesQuery("A", p, nanFails, ok)
    \/ \E c \in Conns : c # 1 /\ joinAsteroid(c, "A")
    \/ \E t \in tasks, ok \in BOOLEAN : joinFetch(t, ok)
    \/ \E t \in tasks : joinDeliver(t)

SpecLimit ==
    /\ \E n \in StoredSizes : Established(OneUser, AllInA, FilledStore(n))
    /\ [][NextLimit]_vars

\* -------- history pages
\* A stored document of any topic, deleted or not, of type text or system,
\* created at time `at`.
Stored(r, del, type, at) ==
    [NewMessage(r, "u1", SeedBody, at) EXCEPT
        !.deleted = del, !.deletedAt = IF del THEN at ELSE NoDate, !.type = type]

\* The kinds of document: of topic A or B, live or deleted, and a system one.
Kinds ==
    [r : Rooms, del : BOOLEAN, type : {"text"}]
    \cup {[r |-> "A", del |-> FALSE, type |-> "system"]}

\* The collections of MaxHistory documents created one per clock tick.
HistoryStores ==
    {[i \in 1..MaxHistory |-> Stored(f[i].r, f[i].del, f[i].type, i)] :
        f \in [1..MaxHistory -> Kinds]}

NextHistory ==
    \/ \E limit \in {0, 1, 2}, before \in {NoDate, 3}, ok \in BOOLEAN :
          restGetMessages("A", limit, before, ok)
    \/ \E c \in Conns, r \in Rooms : c # 1 /\ joinAsteroid(c, r)
    \/ \E t \in tasks, ok \in BOOLEAN : joinFetch(t, ok)
    \/ \E t \in tasks : joinDeliver(t)

SpecHistory ==
    /\ \E store \in HistoryStores : Established(OneUser, AllInA, store)
    /\ [][NextHistory]_vars

\* ------------------------------------------------------------------------
\* RiskAnalysisEngine.  Lengths are in metres, velocities in km/s, distances
\* in thousands of km; weights and total scores are in hundredths, so that
\* the arithmetic of the engine is exact in integers.
Missing == -1

\* getAverageDiameter: twice the average of the estimated minimum and
\* maximum, or Missing (null) when the estimate is absent.
getAverageDiameter(asteroid) ==
    IF asteroid.dmin = Missing THEN Missing
    ELSE asteroid.dmin + asteroid.dmax

calculateSizeScore(asteroid) ==
    LET d == getAverageDiameter(asteroid)
    IN IF d = Missing \/ d = 0 THEN 0
       ELSE IF d >= 2 * 1000 THEN 100
       ELSE IF d >= 2 * 500 THEN 80
       ELSE IF d >= 2 * 200 THEN 60
       ELSE IF d >= 2 * 100 THEN 45
       ELSE IF d >= 2 * 50 THEN 30
       ELSE IF d >= 2 * 20 THEN 20
       ELSE IF d >= 2 * 10 THEN 10
       ELSE 5

\* parseFloat(...) || 0
calculateVelocityScore(asteroid) ==
    LET v == IF asteroid.velocity = Missing THEN 0 ELSE asteroid.velocity
    IN IF v >= 70 THEN 100
       ELSE IF v >= 50 THEN 80
       ELSE IF v >= 35 THEN 60
       ELSE IF v >= 25 THEN 45
       ELSE IF v >= 15 THEN 30
       ELSE IF v >= 10 THEN 20
       ELSE IF v >= 5 THEN 10
       ELSE 5

\* parseFloat(...) || Infinity: an absent distance and a distance of 0 are
\* both taken as infinitely far.
calculateMissDistanceScore(asteroid) ==
    LET m == asteroid.miss
    IN IF m = Missing \/ m = 0 THEN 5
       ELSE IF m < 100 THEN 100
       ELSE IF m < 500 THEN 85
       ELSE IF m < 1000 THEN 70
       ELSE IF m < 5000 THEN 55
       ELSE IF m < 10000 THEN 40
       ELSE IF m < 50000 THEN 25
       ELSE IF m < 100000 THEN 15
       ELSE 5

calculateHazardFlagScore(asteroid) ==
    IF asteroid.hazardous THEN 50 ELSE 0

\* this.weights, in hundredths
weights == [size |-> 35, velocity |-> 25, missDistance |-> 25, hazardFlag |-> 15]

\* The weighted total, in hundredths of a point.
totalScore(asteroid) ==
    calculateSizeScore(asteroid) * weights.size
    + calculateVelocityScore(asteroid) * weights.velocity
    + calculateMissDistanceScore(asteroid) * weights.missDistance
    + calculateHazardFlagScore(asteroid) * weights.hazardFlag

\* determineCategory(score, isHazardous), the score in hundredths.
determineCategory(score, isHazardous) ==
    IF isHazardous /\ score < 30 * 100 THEN "medium"
    ELSE IF score >= 80 * 100 THEN "critical"
    ELSE IF score >= 60 * 100 THEN "high"
    ELSE IF score >= 40 * 100 THEN "medium"
    ELSE "low"

\* Math.round of a score in hundredths
Round(score) == (score + 50) \div 100

\* calculateRiskScore(asteroid): the assessment, its rounded score in n and
\* its category in kind.
calculateRiskScore(asteroid) ==
    /\ server = "running"
    /\ out' = {[Ev("riskAssessment", {}, 0, NoRoom, Round(totalScore(asteroid)), <<>>)
                  EXCEPT !.kind = determineCategory(totalScore(asteroid),
                                                    asteroid.hazardous)]}
    /\ last' = Step("calculateRiskScore", 0, asteroid)
    /\ UNCHANGED <<server, connVars, tasks, storeVars>>

\* Asteroids as the NASA feed describes them: a value in each band of each
\* factor, the band limits included, and each field absent.  The estimated
\* minimum and maximum diameter are equal or neighbouring samples.
Diameters == {0, 10, 20, 100, 200, 1000}
Velocities == {Missing, 5, 10, 15, 25, 35, 50, 70}
MissDistances == {Missing, 0, 50, 100, 500, 1000, 5000, 10000, 50000, 100000}

AsteroidData ==
    {a \in [dmin : Diameters \cup {Missing}, dmax : Diameters \cup {Missing},
            velocity : Velocities, miss : MissDistances, hazardous : BOOLEAN] :
        /\ a.dmin = Missing <=> a.dmax = Missing
        /\ a.dmin <= a.dmax
        /\ \A d \in Diameters : ~(a.dmin < d /\ d < a.dmax)}

NextRisk == \E a \in AsteroidData : calculateRiskScore(a)

SpecRisk == Init /\ [][NextRisk]_vars

\* ========================================================================
\* Properties
\* ========================================================================
Range(s) == {s[i] : i \in DOMAIN s}

\* C1: every occupancy count broadcast to a room equals the live membership
\* size of that room once the step that broadcast it is over; in particular
\* the count broadcast for a leave is the size without the leaver.
C1_OccupancyIsLive ==
    \A e \in out : e.ev = "activeUsers" => e.n = RoomSize(e.room)

\* C2: a socket is in at most one asteroid room in every state, and the step
\* that joins it to a room leaves it in exactly that room.
C2_SingleRoom ==
    /\ \A c \in Conns : Cardinality(rooms[c]) <= 1
    /\ last.op = "joinAsteroid" => rooms[last.conn] = {last.arg.room}

\* A socket has switched rooms while another socket's join is suspended.
C2_Switched ==
    /\ last.op = "joinAsteroid"
    /\ last.arg.prev # {}
    /\ last.arg.room \notin last.arg.prev
    /\ \E t \in tasks : t.kind = "join" /\ t.conn # last.conn

\* C3: the step in which a socket disconnects broadcasts exactly one userLeft
\* and one activeUsers to the remaining members of the room the socket was
\* in, and nothing when it was in no room; no later step announces that the
\* socket left.  A suspended join of the socket changes nothing of this.
C3_DisconnectLeavesOnce ==
    [][\A c \in Conns :
         /\ (status[c] = "connected" /\ status'[c] = "disconnected") =>
               IF rooms[c] = {} THEN out' = {}
               ELSE \E r \in rooms[c] :
                      /\ rooms[c] = {r}
                      /\ out' = {Ev("userLeft", Members(r) \ {c}, c, r, 0, <<>>),
                                 Ev("activeUsers", Members(r) \ {c}, c, r,
                                    Cardinality(Members(r) \ {c}), <<>>)}
         /\ status[c] = "disconnected" =>
               \A e \in out' : ~(e.ev = "userLeft" /\ e.from = c)
      ]_vars

\* A socket disconnected while its join was suspended, and another member of
\* its room received the announcement.
C3_DisconnectDuringJoin ==
    /\ last.op = "disconnect"
    /\ \E t \in tasks : t.kind = "join" /\ t.conn = last.conn
    /\ \E e \in out : e.ev = "userLeft" /\ e.from = last.conn /\ e.to # {}

\* C9: every handshake ends with the socket connected; its identity is the
\* user of the credential when the credential verifies, the lookup answers
\* and the user exists, and the guest identity in every other case.
C9_AuthNeverRejects ==
    last.op = "connect" =>
        /\ status[last.conn] = "connected"
        /\ userId[last.conn] =
              IF /\ last.arg.cred.kind = "valid"
                 /\ last.arg.lookupOk
                 /\ last.arg.cred.uid \in Users
              THEN last.arg.cred.uid
              ELSE NoUser

\* One socket holds a user's identity and the socket that connected last
\* presented an expired token and is a connected guest.
C9_DegradedToGuest ==
    /\ last.op = "connect"
    /\ last.arg.cred.kind = "expired"
    /\ status[last.conn] = "connected" /\ userId[last.conn] = NoUser
    /\ \E d \in Conns : status[d] = "connected" /\ userId[d] \in Users

ReactionsOf(m, u) ==
    {i \in DOMAIN msgs[m].reactions : msgs[m].reactions[i].userId = u}

ReactKinds == {"react", "restReact"}
DeleteKinds == {"delete", "restDelete"}

C5_DeletedStaysHidden ==
    [][\A m \in DOMAIN msgs : msgs[m].deleted =>
          /\ m \in DOMAIN msgs' /\ msgs'[m].deleted
          /\ \A t \in tasks' \ tasks :
                (t.kind = "join" /\ t.pc = "deliver") => m \notin Range(t.snap)
          /\ \A e \in out' :
                /\ e.ev = "history" => m \notin Range(e.list)
                /\ e.ev = "count" =>
                      e.n <= Cardinality({i \in DOMAIN msgs' :
                                msgs'[i].asteroidId = e.room /\ ~msgs'[i].deleted})
      ]_vars

\* The seeded message is deleted, carries a reaction, a second message has
\* been appended, and a join's history query has just been answered.
C5_QueriedAfterDelete ==
    /\ msgs[1].deleted /\ msgs[1].reactions # <<>>
    /\ Len(msgs) = 2
    /\ last.op = "joinFetch" /\ last.arg
    /\ \E t \in tasks : t.kind = "join" /\ t.pc = "deliver" /\ t.snap = <<2>>

\* C6: when findById has answered a delete of a requester who is not the
\* author, the requester alone gets PermissionDenied, the collection is
\* unchanged, nothing is broadcast, the handler is over, and the message is
\* in the history of its topic unless it was deleted before; whether the
\* message is already deleted plays no part.
C6_NonOwnerDeleteDenied ==
    [][\A t \in tasks :
          (/\ t \notin tasks' /\ t.kind \in DeleteKinds /\ t.pc = "find"
           /\ last'.op = "deleteFind" /\ last'.arg # "StoreError"
           /\ t.msg \in DOMAIN msgs /\ msgs[t.msg].userId # t.user) =>
              /\ msgs' = msgs
              /\ tasks' = tasks \ {t}
              /\ out' = {IF t.conn = 0
                         THEN ErrorEv("response", {}, 0, "PermissionDenied")
                         ELSE ErrorEv("chatError", {t.conn}, t.conn, "PermissionDenied")}
              /\ ~msgs[t.msg].deleted =>
                    t.msg \in Range(getChatHistory(msgs[t.msg].asteroidId,
                                                   HistoryLimit, NoDate))
      ]_vars

\* A requester who is not the author has just been refused the delete of a
\* message that is already soft-deleted.
C6_DeniedOnDeleted ==
    /\ last.op = "deleteFind" /\ last.arg = "PermissionDenied"
    /\ msgs[1].deleted
    /\ \E e \in out : e.kind = "PermissionDenied"

\* C7: a send of an authenticated socket on a complete topic is accepted
\* exactly when the trimmed body has 1..2000 characters; a rejected send is
\* answered with a ValidationError and starts no save; every stored body is
\* trimmed and has 1..2000 characters.
C7_AcceptedIffTrimmedFits ==
    /\ (/\ last.op = "sendMessage"
        /\ userId[last.conn] # NoUser
        /\ last.arg.topic.asteroidId # NoRoom /\ last.arg.topic.neo) =>
           /\ last.arg.res = "ok" <=>
                 (Length(Trim(last.arg.body)) >= 1 /\ Length(Trim(last.arg.body)) <= MaxBodyLen)
           /\ last.arg.res # "ok" =>
                 out = {ErrorEv("chatError", {last.conn}, last.conn, "ValidationError")}
    /\ \A m \in DOMAIN msgs :
          /\ msgs[m].body = Trim(msgs[m].body)
          /\ Length(msgs[m].body) >= 1 /\ Length(msgs[m].body) <= MaxBodyLen

\* C8: every send, addReaction or delete event of a guest socket is answered
\* by one AuthRequired chatError to that socket alone, starts no store
\* operation and leaves the server running.
C8_GuestEventsAuthRequired ==
    (/\ last.op \in {"sendMessage", "addReaction", "deleteMessage", "unhandledRejection"}
     /\ last.conn \in Conns /\ userId[last.conn] = NoUser) =>
        /\ out = {ErrorEv("chatError", {last.conn}, last.conn, "AuthRequired")}
        /\ \A t \in tasks : t.conn # last.conn
        /\ server = "running"

\* C10: an event that fails validation or authorization, an event without
\* payload included, is answered by one chatError to the socket that sent it
\* and by nothing else, and the server and the socket stay up.
C10_FailuresAreScoped ==
    (\/ last.op = "unhandledRejection"
     \/ (last.op = "sendMessage" /\ last.arg.res # "ok")
     \/ (last.op \in {"addReaction", "deleteMessage"} /\ userId[last.conn] = NoUser)
     \/ (last.op = "deleteFind" /\ last.arg \in {"NotFound", "PermissionDenied"})) =>
        /\ \E k \in {"ValidationError", "AuthRequired", "NotFound", "PermissionDenied"} :
              out = {ErrorEv("chatError", {last.conn}, last.conn, k)}
        /\ server = "running"
        /\ status[last.conn] = "connected"

\* C11: an event that does not take its normal effect is answered with a
\* chatError to the socket that sent it: a typing or stopTyping event of a
\* guest or of a socket without a room, a join whose history fetch failed, a
\* send whose save failed.
C11_FailuresAreReported ==
    [][/\ (/\ last'.op \in {"typing", "stopTyping"}
           /\ (userId[last'.conn] = NoUser \/ currentRoom[last'.conn] = NoRoom)) =>
              \E e \in out' : e.ev = "chatError" /\ e.to = {last'.conn}
       /\ \A t \in tasks :
             (/\ t.pc \in {"deliver", "saved"} /\ ~t.ok
              /\ t \notin tasks' /\ status[t.conn] = "connected") =>
                \E e \in out' : e.ev = "chatError" /\ e.to = {t.conn}]_vars

\* C12: newMessage events reach a room in the order of the messages in the
\* store (by createdAt, as history returns them): when a message is broadcast,
\* no stored message of the same room with an earlier createdAt is still
\* waiting for its own broadcast.
C12_BroadcastInStoreOrder ==
    \A e \in out : e.ev = "newMessage" =>
        \A t \in tasks :
            (t.kind = "send" /\ t.pc = "saved" /\ t.ok /\ t.room = e.room) =>
                msgs[t.msg].createdAt > msgs[e.n].createdAt

\* C13: a chatHistory event is emitted only by the completion of a join and
\* is addressed to the socket that issued that join and to no other socket.
C13_HistoryToJoinerOnly ==
    \A e \in out : e.ev = "chatHistory" =>
        /\ last.op = "joinDeliver"
        /\ e.from = last.conn
        /\ e.to \subseteq {last.conn}

\* A non-empty history is delivered to a joiner while another socket is in
\* the room and the join of another socket is still in progress.
C13_HistoryWhileOthersJoin ==
    \E e \in out :
        /\ e.ev = "chatHistory" /\ e.list # <<>> /\ e.to = {e.from}
        /\ Members(e.room) \ e.to # {}
        /\ \E t \in tasks : t.kind = "join" /\ t.conn # e.from

\* C14: a join that takes a socket out of another room tells the members that
\* remain in that room: a userLeft for the socket and an activeUsers whose
\* count is the room's membership without it.
C14_SwitchAnnouncesLeave ==
    last.op = "joinAsteroid" =>
        \A r \in last.arg.prev \ {last.arg.room} : Members(r) # {} =>
            /\ \E e \in out : e.ev = "userLeft" /\ e.room = r /\ e.from = last.conn
                              /\ e.to = Members(r)
            /\ \E e \in out : e.ev = "activeUsers" /\ e.room = r /\ e.n = RoomSize(r)
                              /\ e.to = Members(r)

\* C15: a leaveAsteroid event of a socket without a current room emits
\* nothing and changes nothing, and every leave ends with the socket without
\* a current room, so that a leave repeated at once is such a no-op.
C15_LeaveIdempotent ==
    [][\A c \in Conns : (last'.op = "leaveAsteroid" /\ last'.conn = c) =>
          /\ currentRoom[c] = NoRoom =>
                /\ out' = {}
                /\ UNCHANGED <<server, connVars, tasks, msgs, clock>>
          /\ currentRoom'[c] = NoRoom
          /\ rooms'[c] = {}]_vars

\* A socket that joined a room and left it (its join still fetching) has
\* just sent leaveAsteroid again, while another socket is in a room.
C15_LeftTwice ==
    /\ last.op = "leaveAsteroid" /\ last.arg = NoRoom /\ out = {}
    /\ \E t \in tasks : t.conn = last.conn /\ t.kind = "join"
    /\ \E d \in Conns : d # last.conn /\ currentRoom[d] # NoRoom

\* C16: the REST message POST gives a request the outcome class the live
\* sendMessage event gives the same request of the same identity: when the
\* route has looked the asteroid up, it goes on to save exactly when the
\* handler's checks pass, and otherwise answers with the handler's error class.
C16_RestMatchesLive ==
    [][\A t \in tasks :
          (/\ t.kind = "restPost" /\ t.pc = "find" /\ t \notin tasks'
           /\ last'.op = "restPostFind" /\ last'.arg = TRUE) =>
              LET live == SendCheck(Topic(t.room, TRUE), t.body, t.user)
                  rest == IF \E e \in out' : e.kind # ""
                          THEN (CHOOSE e \in out' : e.kind # "").kind
                          ELSE "ok"
              IN rest = live]_vars

\* C17: a store write of a socket's send, addReaction or delete handler that
\* fails for the first time is not reported: the handler issues the write
\* again and emits nothing.
C17_FailedWriteIsRetried ==
    [][\A t \in tasks :
          (/\ t.pc = "save" /\ t.conn # 0 /\ t \notin tasks'
           /\ last'.op \in {"sendSave", "reactSave", "deleteSave"}
           /\ last'.arg = FALSE) =>
              /\ out' = {}
              /\ \E r \in tasks' \ tasks :
                    r.kind = t.kind /\ r.conn = t.conn /\ r.pc = "save"]_vars

\* The event that relays a typing or stopTyping event.
TypingEvent(op) == IF op = "typing" THEN "userTyping" ELSE "userStoppedTyping"

\* What the room of socket c receives when c's indicator is relayed.
Relayed(op, c) ==
    {Ev(TypingEvent(op), Members(currentRoom[c]) \ {c}, c, currentRoom[c], 0, <<>>)}

\* C18 (as claimed): a typing or stopTyping event of any socket that has a
\* current room is relayed to every other member of that room and to nobody
\* else, and leaves the store as it is.
C18_TypingFansOut ==
    [][\A c \in Conns :
          (/\ last'.op \in {"typing", "stopTyping"} /\ last'.conn = c
           /\ currentRoom[c] # NoRoom) =>
              /\ out' = Relayed(last'.op, c)
              /\ UNCHANGED <<msgs, clock>>]_vars

\* C18 (amended): a typing or stopTyping event of an authenticated socket that
\* has a current room is relayed to every other member of that room and to
\* nobody else; the event of a guest or of a socket without a room is relayed
\* to nobody; in every case the store stays as it is.
C18_AuthenticatedTypingFansOut ==
    [][\A c \in Conns :
          (last'.op \in {"typing", "stopTyping"} /\ last'.conn = c) =>
              /\ out' = IF currentRoom[c] # NoRoom /\ userId[c] # NoUser
                        THEN Relayed(last'.op, c)
                        ELSE {}
              /\ \A e \in out' : c \notin e.to /\ e.to \subseteq Members(currentRoom[c])
              /\ UNCHANGED <<msgs, clock, rooms, currentRoom>>]_vars

\* A typing indicator has just been relayed to another member of the room
\* while the store holds a message.
C18_TypingRelayed ==
    /\ last.op = "typing"
    /\ \E e \in out : e.ev = "userTyping" /\ e.to # {} /\ last.conn \notin e.to
    /\ msgs # <<>>

\* C19: once the room has received the newMessage of a send by a socket, no
\* other member of the room still shows that socket's user as typing.
C19_SendClearsTyping ==
    \A e \in out : e.ev = "newMessage" =>
        \A d \in e.to \ {e.from} : userId[e.from] \notin typingUsers[d]

\* C20: whatever limit a history request carries (none, zero, negative,
\* unreadable, above the maximum), the history it is answered with holds at
\* most HistoryLimit messages; so does the history sent to a joiner.
C20_HistoryAtMostMax ==
    \A e \in out : e.ev \in {"history", "chatHistory"} => Len(e.list) <= HistoryLimit

\* C21: a delete repeated by the owner on a deleted message succeeds and
\* leaves the message as the first delete left it: still deleted, with the
\* deletion time first recorded.
C21_DeleteIdempotent ==
    [][\A m \in DOMAIN msgs : msgs[m].deleted =>
          /\ msgs'[m].deleted
          /\ msgs'[m].deletedAt = msgs[m].deletedAt]_vars

\* C22: an addReaction request without an emoji is turned down before it
\* reaches the store, on the socket as on the REST route, and no stored
\* reaction lacks its emoji.
C22_MissingEmojiRejected ==
    /\ \A t \in tasks : t.kind \in {"react", "restReact"} => t.emoji # NoEmoji
    /\ \A m \in DOMAIN msgs : \A i \in DOMAIN msgs[m].reactions :
          msgs[m].reactions[i].emoji # NoEmoji

\* C23: every stored message has an authenticated author, and the message a
\* send stores carries the user bound to the sending socket (the requesting
\* user, for the REST route); no step changes the author of a stored message.
C23_AuthorIsSender ==
    [][/\ \A m \in DOMAIN msgs' : msgs'[m].userId \in Users
       /\ \A m \in DOMAIN msgs : msgs'[m].userId = msgs[m].userId
       /\ \A t \in tasks :
             (/\ t.kind \in {"send", "restPost"} /\ t.pc = "save" /\ t \notin tasks'
              /\ Len(msgs') = Len(msgs) + 1) =>
                 /\ msgs'[Len(msgs')].userId = t.user
                 /\ t.conn # 0 => msgs'[Len(msgs')].userId = userId[t.conn]]_vars

\* A message of u1's socket has just been stored, after a send of the guest
\* socket was turned down or while the guest is connected.
C23_StoredForSender ==
    /\ last.op = "sendSave" /\ last.arg = TRUE
    /\ msgs # <<>> /\ msgs[Len(msgs)].userId = userId[last.conn]
    /\ \E c \in Conns : userId[c] = NoUser /\ status[c] = "connected"

\* The messages a history of topic r before the cursor may contain.
Eligible(r, before) ==
    {m \in DOMAIN msgs :
        /\ msgs[m].asteroidId = r /\ ~msgs[m].deleted /\ msgs[m].type # "system"
        /\ (before # NoDate => msgs[m].createdAt < before)}

\* list is the page of the `limit` most recent eligible messages, oldest first.
IsPage(list, r, limit, before) ==
    /\ Range(list) \subseteq Eligible(r, before)
    /\ Len(list) = Min(limit, Cardinality(Eligible(r, before)))
    /\ \A i, j \in DOMAIN list : i < j => msgs[list[i]].createdAt < msgs[list[j]].createdAt
    /\ \A m \in Eligible(r, before) \ Range(list) : \A x \in Range(list) :
          msgs[m].createdAt < msgs[x].createdAt

\* C24: a history request for (topic, limit, cursor) is answered with the
\* page of the `limit` most recent eligible messages of that topic in
\* ascending order of creation, and so is a join (limit 50, no cursor).
C24_HistoryIsLatestPage ==
    /\ [](last.op = "restGetMessages" /\ last.arg.ok =>
            \E e \in out : e.ev = "history"
                           /\ IsPage(e.list, e.room, last.arg.limit, last.arg.before))
    /\ [][\A t \in tasks :
             (t.kind = "join" /\ t.pc = "deliver" /\ t.ok /\ t \notin tasks') =>
                \E e \in out' : e.ev = "chatHistory"
                                /\ IsPage(e.list, t.room, HistoryLimit, NoDate)]_vars

C26_JoinAnnouncedWhileMember ==
    last.op = "joinDeliver" =>
        \A e \in out : (e.ev \in {"userJoined", "activeUsers"} /\ e.to # {}) =>
            /\ e.from \in Members(e.room)
            /\ e.ev = "activeUsers" => e.n = RoomSize(e.room)

\* C27: an asteroid flagged potentially hazardous is never put in category
\* low, whatever score its factors give; an asteroid that is not flagged is
\* critical from 80 points, high from 60, medium from 40 and low below.
C27_HazardousAtLeastMedium ==
    last.op = "calculateRiskScore" =>
        \A e \in out :
            LET score == totalScore(last.arg)
            IN IF last.arg.hazardous THEN e.kind # "low"
               ELSE e.kind = (IF score >= 8000 THEN "critical"
                              ELSE IF score >= 6000 THEN "high"
                              ELSE IF score >= 4000 THEN "medium"
                              ELSE "low")

\* C28: the last chatHistory a socket receives is the one of its current
\* room: a history of another room is delivered to it only while the join of
\* its current room has its own history still to deliver.
C28_LastHistoryIsCurrentRoom ==
    \A e \in out :
        (/\ e.ev = "chatHistory" /\ e.to # {}
         /\ currentRoom[e.from] # NoRoom /\ e.room # currentRoom[e.from]) =>
            \E t \in tasks : t.kind = "join" /\ t.conn = e.from
                             /\ t.room = currentRoom[e.from]

\* C29: between handler steps, the currentRoom field of a connected socket
\* names exactly the asteroid room the socket is in, and is null exactly
\* when the socket is in none.
C29_CurrentRoomIsMembership ==
    \A c \in Conns : status[c] = "connected" =>
        rooms[c] = IF currentRoom[c] = NoRoom THEN {} ELSE {currentRoom[c]}

\* A socket has just left the room it was in, while another socket, which
\* switched rooms with its earlier join still suspended, is in its new room.
C29_LeftWhileOtherSwitched ==
    /\ last.op = "leaveAsteroid" /\ last.arg # NoRoom
    /\ status[last.conn] = "connected" /\ currentRoom[last.conn] = NoRoom
    /\ \E d \in Conns \ {last.conn} :
          /\ status[d] = "connected" /\ currentRoom[d] # NoRoom
          /\ \E t \in tasks : t.kind = "join" /\ t.conn = d /\ t.room # currentRoom[d]

\* Socket c has just left the room of socket d (by leaveAsteroid, by joining
\* another room or by disconnecting) while d's typing list shows c's user.
DepartedTyping(c, d) ==
    /\ c # d /\ last.conn = c
    /\ status[d] = "connected" /\ currentRoom[d] # NoRoom
    /\ userId[c] # NoUser /\ userId[c] \in typingUsers[d]
    /\ currentRoom[d] \notin rooms[c]
    /\ \/ last.op \in {"leaveAsteroid", "disconnect"} /\ last.arg = currentRoom[d]
       \/ last.op = "joinAsteroid" /\ currentRoom[d] \in last.arg.prev

\* C30: when a socket shown as typing leaves its room, switches rooms or
\* disconnects, each member that stays in the room eventually has the user
\* removed from its typing list (or the socket is back in the room).
C30_DepartureClearsTyping ==
    \A c \in Conns, d \in Conns :
        DepartedTyping(c, d) ~>
            \/ userId[c] \notin typingUsers[d]
            \/ currentRoom[d] \in rooms[c]
            \/ status[d] # "connected"
            \/ currentRoom[d] = NoRoom

====
